---- MODULE Spec2Model ----
(***************************************************************************)
(* BrowserCaptchaService (src/src/services/browser_captcha_personal.py).   *)
(*                                                                         *)
(* The service runs on one cooperative asyncio event loop.  A coroutine    *)
(* runs without interruption from one real suspension point (an await on   *)
(* uc.start, browser.get, tab.evaluate, tab.close) to the next, so each    *)
(* action below is one such run: it completes the awaited browser          *)
(* primitive and executes the code that follows it up to the next await.   *)
(* tab.sleep / asyncio.sleep touch no state, so a sleep is folded into     *)
(* the step of the evaluation that follows it.  An `await` of a coroutine  *)
(* that returns without suspending (initialize() on a live session,        *)
(* stop_resident_mode() when not running) does not yield either.           *)
(*                                                                         *)
(* The browser and its pages are the environment: a page or the browser    *)
(* process may die at any moment (TabDies, BrowserDies); an evaluation on  *)
(* a dead page raises, an evaluation on a live page returns a value the    *)
(* page chooses.                                                           *)
(***************************************************************************)
EXTENDS Integers, Sequences, FiniteSets, TLC

(* ------------------------------------------------------------------ *)
(* Retry budgets of the program                                       *)
(* ------------------------------------------------------------------ *)
StartLoadRetries == 15
LegacyLoadPolls == 10
ProbePolls == 20
ExecPolls == 30

\* the concurrent specification counts the iterations of a loop up to
\* LoopCut only, then lets the loop give up: the counter is local to the
\* call, and every way out of the loop (an answer at the first
\* iteration, at a later one, an exception, giving up) is still there
LoopCut == 2
\* the budget of a loop of n iterations, counted in full or cut
Budget(n, counted) == IF counted \/ n < LoopCut THEN n ELSE LoopCut

(* ------------------------------------------------------------------ *)
(* The coroutines and the values they handle                          *)
(* ------------------------------------------------------------------ *)
Tasks == {"t1", "t2"}
\* the coroutine whose calls the test doubles count; the other one is
\* concurrent load
Caller == "t1"
Observed == {Caller}

Projects == {"P1", "P2"}
Tokens == {"tokA", "tokB"}
None == "None"
\* what `window.<token_var>` / `window.<error_var>` can evaluate to
TokenVals == {None, ""} \cup Tokens
ErrorVals == {None, "", "err"}
\* Python truthiness of such a value (`if token:`)
Truthy(v) == v # None /\ v # ""

\* page handles: one for resident_tab and one local per coroutine
PageIds == 1..(Cardinality(Tasks) + 1)

VARIABLES
    browser,              \* self.browser: 0 (None) or 1 (a Browser object)
    initialized,          \* self._initialized
    resident_project_id,  \* self.resident_project_id
    resident_tab,         \* self.resident_tab: 0 (None) or a page handle
    running,              \* self._running
    recaptcha_ready,      \* self._recaptcha_ready
    alive,                \* the process behind self.browser is running
    tabOwner,             \* page handle -> 0 closed or dead, 1 a page of
                          \* the process behind self.browser, 2 a page of
                          \* a process whose handle has been overwritten
    loc,                  \* per coroutine: position and local variables
    obs,                  \* per coroutine: what the test doubles counted
    prev,                 \* summary of the last call that returned
    raced,                \* two start/stop/close calls have overlapped
    instance,             \* cls._instance: NoInstance or an instance
    constructed,          \* how many times __init__ has run
    lock,                 \* cls._lock: None or the coroutine holding it
    gi,                   \* per caller of get_instance: its position
    given,                \* the instances get_instance has returned
    clock,                \* int(time.time() * 1000), from a small origin
    window,               \* one page: name suffix -> its two globals
    promises,             \* pending grecaptcha.enterprise.execute promises
    ex,                   \* per executor on that page: position and locals
    fault                 \* a tab.evaluate on that page has raised

vars == <<browser, initialized, resident_project_id, resident_tab, running,
          recaptcha_ready, alive, tabOwner, loc, obs, prev, raced,
          instance, constructed, lock, gi, given,
          clock, window, promises, ex, fault>>
\* the class-level singleton state
inst == <<instance, constructed, lock, gi, given>>
\* one page and the executions of _execute_recaptcha_on_tab on it
page == <<clock, window, promises, ex, fault>>
svc == <<browser, initialized, resident_project_id, resident_tab, running,
         recaptcha_ready>>
env == <<alive, tabOwner>>
hist == <<prev, raced>>

IdleLoc == [pc |-> "idle", op |-> "none", pid |-> None, tab |-> 0, i |-> 0,
            token |-> None, ctx |-> "none", ret |-> None, exc |-> "none"]

ZeroObs == [legacy |-> 0, resExec |-> 0, opens |-> 0, closes |-> 0,
            stops |-> 0, injects |-> 0, first |-> "none",
            sawPresent |-> FALSE, probeRet |-> "unset", resTok |-> "unset",
            legRet |-> "unset", entryRunning |-> FALSE, entryBound |-> FALSE,
            execEnd |-> "none"]

\* the coroutines calling get_instance and the db arguments they pass
\* the last millisecond at which an execution is started
MaxClock == 2
\* coroutines inside _execute_recaptcha_on_tab on the same page
Execs == {"e1", "e2"}
\* the suffixes {ts} of _recaptcha_token_{ts} and _recaptcha_error_{ts}
Names == 0 .. MaxClock
\* a property of window that does not exist
Undefined == "undefined"
NoGlobals == [token |-> Undefined, error |-> Undefined]
IdleExec == [pc |-> "idle", ts |-> 0, i |-> 0, token |-> None]

Callers == {"c1", "c2", "c3"}
Dbs == {"dbA", "dbB"}
NoInstance == [id |-> 0, db |-> None]
IdleGi == [pc |-> "idle", db |-> None, ret |-> NoInstance]

NoPrev == [op |-> "none", opens |-> 0, entryRunning |-> FALSE,
           raised |-> FALSE, rid |-> None]

\* __init__ (lines 27-41); no coroutine has been started
Init ==
    /\ browser = 0
    /\ initialized = FALSE
    /\ resident_project_id = None
    /\ resident_tab = 0
    /\ running = FALSE
    /\ recaptcha_ready = FALSE
    /\ alive = FALSE
    /\ tabOwner = [p \in PageIds |-> 0]
    /\ loc = [t \in Tasks |-> IdleLoc]
    /\ obs = [t \in Tasks |-> ZeroObs]
    /\ prev = NoPrev
    /\ raced = FALSE
    /\ instance = NoInstance
    /\ constructed = 0
    /\ lock = None
    /\ gi = [c \in Callers |-> IdleGi]
    /\ given = {}
    /\ clock = 0
    /\ window = [n \in Names |-> NoGlobals]
    /\ promises = {}
    /\ ex = [e \in Execs |-> IdleExec]
    /\ fault = FALSE

(* ------------------------------------------------------------------ *)
(* Helpers                                                            *)
(* ------------------------------------------------------------------ *)
\* tab.evaluate on p returns rather than raises
Alive(p) == p # 0 /\ tabOwner[p] # 0

\* browser.get returns a page rather than raises
BrowserUp == browser # 0 /\ alive

Min(S) == CHOOSE x \in S : \A y \in S : x <= y

\* the page handles some variable of the program still refers to
Referenced == {resident_tab} \cup {loc[u].tab : u \in Tasks}
\* a page object distinct from every page object still referred to
FreshPage == Min(PageIds \ Referenced)
\* a page no variable refers to any more is out of the program's reach:
\* the model forgets it
Kept(tabs) == [p \in PageIds |-> IF p \in Referenced' THEN tabs[p] ELSE 0]

\* the test doubles count the calls of the coroutines in Observed only
Seen(t, ob) == IF t \in Observed THEN ob ELSE obs

\* the frame of a call of operation o with argument p
Frame(o, p) == [IdleLoc EXCEPT !.op = o, !.pid = p]

\* a call has returned r (or raised e): only its result is kept
Returned(l, r, e) ==
    [IdleLoc EXCEPT !.pc = "done", !.op = l.op, !.pid = l.pid, !.ret = r,
                    !.exc = e]

(* ------------------------------------------------------------------ *)
(* Environment: pages and the browser process die out-of-band         *)
(* ------------------------------------------------------------------ *)
TabDies(p) ==
    /\ tabOwner[p] # 0
    /\ tabOwner' = [tabOwner EXCEPT ![p] = 0]
    /\ UNCHANGED <<svc, alive, loc, obs, hist>>

\* the pages of the process behind self.browser die with it
KillBrowser(tabs) == [p \in PageIds |-> IF tabs[p] = 1 THEN 0 ELSE tabs[p]]
\* self.browser is overwritten while its process runs: its pages live on
Orphan(tabs) == [p \in PageIds |-> IF tabs[p] = 1 THEN 2 ELSE tabs[p]]

BrowserDies ==
    /\ alive
    /\ alive' = FALSE
    /\ tabOwner' = KillBrowser(tabOwner)
    /\ UNCHANGED <<svc, loc, obs, hist>>

(* ------------------------------------------------------------------ *)
(* initialize()                                                       *)
(* ------------------------------------------------------------------ *)
\* lines 54-62: a session exists and browser.stopped is false -> return
SessionAlive == initialized /\ browser # 0 /\ alive
\* lines 58-60: _initialized after the health check, when the launch goes
\* ahead
AfterHealthCheck == IF initialized /\ browser # 0 THEN FALSE ELSE initialized

\* lines 74-93: uc.start() completes for the coroutine t
InitLaunch(t) ==
    /\ loc[t].pc = "init_launch"
    /\ \/ \* the launch fails: logged and re-raised
          /\ loc' = [loc EXCEPT ![t] = Returned(@, None, "launch")]
          /\ UNCHANGED <<svc, env, obs, hist>>
       \/ \* a new browser process; the caller goes on to browser.get
          /\ browser' = 1
          /\ alive' = TRUE
          /\ tabOwner' = IF alive THEN Orphan(tabOwner) ELSE tabOwner
          /\ initialized' = TRUE
          /\ IF loc[t].ctx = "start"
             THEN /\ resident_project_id' = loc[t].pid
                  /\ loc' = [loc EXCEPT ![t].pc = "start_get"]
             ELSE /\ UNCHANGED resident_project_id
                  /\ loc' = [loc EXCEPT ![t].pc =
                               IF loc[t].ctx = "login" THEN "login_get"
                                                       ELSE "legacy_get"]
          /\ UNCHANGED <<resident_tab, running, recaptcha_ready, obs, hist>>

(* ------------------------------------------------------------------ *)
(* start_resident_mode(project_id)                                    *)
(* ------------------------------------------------------------------ *)
\* lines 107-115, up to the first await that suspends: initialize(),
\* then the project id is stored and the page is asked for
StartBegin(t, pid) ==
    IF SessionAlive
    THEN /\ resident_project_id' = pid
         /\ loc' = [loc EXCEPT ![t] = [Frame("start", pid) EXCEPT
                      !.ctx = "start", !.pc = "start_get"]]
         /\ UNCHANGED <<browser, initialized, resident_tab, running,
                        recaptcha_ready, env>>
    ELSE /\ initialized' = AfterHealthCheck
         /\ loc' = [loc EXCEPT ![t] = [Frame("start", pid) EXCEPT
                      !.ctx = "start", !.pc = "init_launch"]]
         /\ UNCHANGED <<browser, resident_project_id, resident_tab,
                        running, recaptcha_ready, env>>

\* start_resident_mode without the check of line 103
CallStartUnguarded(t, pid) ==
    /\ loc[t].pc = "idle"
    /\ obs' = Seen(t, [obs EXCEPT ![t].entryRunning = running])
    /\ StartBegin(t, pid)

\* lines 103-105: already running -> warning, return; else StartBegin
CallStart(t, pid) ==
    /\ loc[t].pc = "idle"
    /\ obs' = Seen(t, [obs EXCEPT ![t].entryRunning = running])
    /\ IF running
       THEN /\ loc' = [loc EXCEPT ![t] =
                         Returned(Frame("start", pid), None, "none")]
            /\ UNCHANGED <<svc, env>>
       ELSE StartBegin(t, pid)

\* line 115: browser.get(url, new_tab=True) completes
StartGet(t) ==
    /\ loc[t].pc = "start_get"
    /\ IF BrowserUp
       THEN /\ resident_tab' = FreshPage
            /\ loc' = [loc EXCEPT ![t] = [@ EXCEPT !.pc = "start_poll",
                                                    !.i = 0]]
            /\ tabOwner' = Kept([tabOwner EXCEPT ![FreshPage] = 1])
            /\ obs' = Seen(t, [obs EXCEPT ![t].opens = @ + 1])
       ELSE \* not inside any try: the exception leaves start_resident_mode
            /\ loc' = [loc EXCEPT ![t] = Returned(@, None, "page")]
            /\ UNCHANGED <<resident_tab, tabOwner, obs>>
    /\ UNCHANGED <<browser, initialized, resident_project_id, running,
                   recaptcha_ready, alive, hist>>

\* the page-load loop moves to its next attempt, or gives up (lines 121, 142)
StartNextAttempt(l, counted) ==
    IF l.i + 1 < Budget(StartLoadRetries, counted)
    THEN [l EXCEPT !.pc = "start_poll", !.i = @ + 1]
    ELSE Returned(l, None, "none")

\* lines 123-128, 138-140: sleep(1), evaluate document.readyState
StartPoll(t, counted) ==
    /\ loc[t].pc = "start_poll"
    /\ IF Alive(resident_tab)
       THEN \E ready_state \in {"loading", "complete"} :
              IF ready_state = "complete"
              THEN \* page_loaded; line 147 calls the probe on resident_tab
                   loc' = [loc EXCEPT ![t] = [@ EXCEPT !.pc = "probe_check",
                                        !.tab = resident_tab, !.i = 0]]
              ELSE loc' = [loc EXCEPT ![t] = StartNextAttempt(@, counted)]
       ELSE \/ \* ConnectionRefusedError: re-create the page (line 133)
               /\ resident_tab # 0
               /\ loc' = [loc EXCEPT ![t].pc = "start_reget"]
            \/ \* any other exception (also resident_tab is None): sleep(2)
               loc' = [loc EXCEPT ![t] = StartNextAttempt(@, counted)]
    /\ UNCHANGED <<svc, env, obs, hist>>

\* lines 132-136: browser.get(url, new_tab=True) in the except branch
StartReget(t) ==
    /\ loc[t].pc = "start_reget"
    /\ loc' = [loc EXCEPT ![t].pc = "start_sleep"]
    /\ IF BrowserUp
       THEN /\ resident_tab' = FreshPage
            /\ tabOwner' = Kept([tabOwner EXCEPT ![FreshPage] = 1])
            /\ obs' = Seen(t, [obs EXCEPT ![t].opens = @ + 1])
       ELSE \* except Exception as e2: logged, the old handle is kept
            UNCHANGED <<resident_tab, tabOwner, obs>>
    /\ UNCHANGED <<browser, initialized, resident_project_id, running,
                   recaptcha_ready, alive, hist>>

\* the re-creation branch going round again without using up an attempt
StartSleepSameAttempt(t, counted) ==
    /\ loc[t].pc = "start_sleep"
    /\ loc' = [loc EXCEPT ![t].pc = "start_poll"]
    /\ UNCHANGED <<svc, env, obs, hist>>

\* line 137: asyncio.sleep(2) after the re-creation, then the next attempt
StartSleep(t, counted) ==
    /\ loc[t].pc = "start_sleep"
    /\ loc' = [loc EXCEPT ![t] = StartNextAttempt(@, counted)]
    /\ UNCHANGED <<svc, env, obs, hist>>

(* ------------------------------------------------------------------ *)
(* stop_resident_mode() and close()                                   *)
(* ------------------------------------------------------------------ *)
\* close() forgetting to reset _initialized (line 391)
CloseBodyKeepsInitialized(t, tabs, ob) ==
    /\ IF browser # 0
       THEN /\ alive' = FALSE
            /\ tabOwner' = Kept(KillBrowser(tabs))
            /\ obs' = Seen(t, [ob EXCEPT ![t].stops = @ + 1])
       ELSE /\ alive' = alive
            /\ tabOwner' = Kept(tabs)
            /\ obs' = Seen(t, ob)
    /\ browser' = 0
    /\ initialized' = initialized

\* lines 383-395: the body of close() after stop_resident_mode() returned;
\* browser.stop() is synchronous.  tabs and ob are the pages and the call
\* counts as stop_resident_mode() left them
CloseBody(t, tabs, ob) ==
    /\ IF browser # 0
       THEN /\ alive' = FALSE
            /\ tabOwner' = Kept(KillBrowser(tabs))
            /\ obs' = Seen(t, [ob EXCEPT ![t].stops = @ + 1])
       ELSE /\ alive' = alive
            /\ tabOwner' = Kept(tabs)
            /\ obs' = Seen(t, ob)
    /\ browser' = 0
    /\ initialized' = FALSE

\* what the instrumentation notes when stop_resident_mode() or close() is called
StopEntry(t) == [obs EXCEPT ![t].entryRunning = running]

\* lines 158-159: not running -> return; in close() the body follows
StopNoop(t, o) ==
    /\ loc' = [loc EXCEPT ![t] = Returned(Frame(o, None), None, "none")]
    /\ UNCHANGED <<resident_project_id, resident_tab, running,
                   recaptcha_ready>>
    /\ IF o = "close"
       THEN CloseBody(t, tabOwner, StopEntry(t))
       ELSE /\ obs' = Seen(t, StopEntry(t))
            /\ UNCHANGED <<browser, initialized, env>>

\* lines 161-172 up to `await self.resident_tab.close()`, _running being
\* set to flag at line 161
StopBegin(t, o, flag) ==
    /\ running' = flag
    /\ IF resident_tab # 0
       THEN /\ loc' = [loc EXCEPT ![t] = [Frame(o, None) EXCEPT
                         !.pc = "stop_close", !.tab = resident_tab]]
            /\ obs' = Seen(t, StopEntry(t))
            /\ UNCHANGED <<browser, initialized, resident_project_id,
                           resident_tab, recaptcha_ready, env>>
       ELSE /\ resident_project_id' = None
            /\ recaptcha_ready' = FALSE
            /\ loc' = [loc EXCEPT ![t] =
                         Returned(Frame(o, None), None, "none")]
            /\ UNCHANGED resident_tab
            /\ IF o = "close"
               THEN CloseBody(t, tabOwner, StopEntry(t))
               ELSE /\ obs' = Seen(t, StopEntry(t))
                    /\ UNCHANGED <<browser, initialized, env>>

\* stop_resident_mode without the check of line 158
CallStopUnguarded(t, o) ==
    /\ loc[t].pc = "idle"
    /\ StopBegin(t, o, FALSE)

\* stop_resident_mode leaving _running set at line 161
CallStopKeepsFlag(t, o) ==
    /\ loc[t].pc = "idle"
    /\ IF ~running THEN StopNoop(t, o) ELSE StopBegin(t, o, TRUE)

\* stop_resident_mode() (o = "stop", lines 156-174) and close()
\* (o = "close", lines 378-395, which begins with stop_resident_mode())
CallStop(t, o) ==
    /\ loc[t].pc = "idle"
    /\ IF ~running THEN StopNoop(t, o) ELSE StopBegin(t, o, FALSE)

\* lines 166-172: resident_tab.close() completes (its errors are swallowed)
StopClose(t) ==
    /\ loc[t].pc = "stop_close"
    /\ resident_tab' = 0
    /\ resident_project_id' = None
    /\ recaptcha_ready' = FALSE
    /\ loc' = [loc EXCEPT ![t] = Returned(@, None, "none")]
    /\ LET tabs == [tabOwner EXCEPT ![loc[t].tab] = 0]
           ob == [obs EXCEPT ![t].closes = @ + 1]
       IN IF loc[t].op = "close"
          THEN CloseBody(t, tabs, ob)
          ELSE /\ tabOwner' = Kept(tabs)
               /\ obs' = Seen(t, ob)
               /\ UNCHANGED <<browser, initialized, alive>>
    /\ UNCHANGED <<running, hist>>

(* ------------------------------------------------------------------ *)
(* An evaluation raised                                               *)
(* ------------------------------------------------------------------ *)
\* inside _get_token_legacy the exception is caught (line 367) and the
\* finally block closes the page; on the resident path and in
\* start_resident_mode no handler encloses the call
\* the same without the finally block of lines 370-376
RaiseNoFinally(l) == Returned(l, None, IF l.ctx = "legacy" THEN "none" ELSE "page")

Raise(l) ==
    IF l.ctx = "legacy"
    THEN [l EXCEPT !.pc = "legacy_close", !.ret = None]
    ELSE Returned(l, None, "page")

\* a step that may have dropped the coroutine's page handle
Forget == tabOwner' = Kept(tabOwner)

(* ------------------------------------------------------------------ *)
(* _wait_for_recaptcha(tab)                                           *)
(* ------------------------------------------------------------------ *)
\* the probe returns r to its caller: lines 147-154, or lines 348-356
ProbeReturn(t, r, ob) ==
    /\ obs' = Seen(t, [ob EXCEPT ![t].probeRet = IF r THEN "true" ELSE "false"])
    /\ IF loc[t].ctx = "start"
       THEN /\ recaptcha_ready' = r
            /\ running' = (r \/ running)
            /\ loc' = [loc EXCEPT ![t] = Returned(@, None, "none")]
       ELSE /\ UNCHANGED <<recaptcha_ready, running>>
            /\ loc' = [loc EXCEPT ![t] =
                 IF r THEN [@ EXCEPT !.pc = "exec_inject", !.i = 0]
                      ELSE [@ EXCEPT !.pc = "legacy_close", !.ret = None]]

\* lines 185-194: the first readiness check
ProbeCheck(t) ==
    /\ loc[t].pc = "probe_check"
    /\ IF Alive(loc[t].tab)
       THEN \E is_enterprise \in BOOLEAN :
              IF is_enterprise
              THEN ProbeReturn(t, TRUE, [obs EXCEPT ![t].first = "present",
                                                    ![t].sawPresent = TRUE])
              ELSE /\ obs' = Seen(t, [obs EXCEPT ![t].first = "absent"])
                   /\ loc' = [loc EXCEPT ![t].pc = "probe_inject"]
                   /\ UNCHANGED <<recaptcha_ready, running>>
       ELSE /\ loc' = [loc EXCEPT ![t] = Raise(@)]
            /\ UNCHANGED <<recaptcha_ready, running, obs>>
    /\ UNCHANGED <<browser, initialized, resident_project_id, resident_tab,
                   alive, hist>>
    /\ Forget

\* lines 196-207: the script injection
ProbeInject(t) ==
    /\ loc[t].pc = "probe_inject"
    /\ IF Alive(loc[t].tab)
       THEN /\ obs' = Seen(t, [obs EXCEPT ![t].injects = @ + 1])
            /\ loc' = [loc EXCEPT ![t] = [@ EXCEPT !.pc = "probe_poll",
                                                   !.i = 0]]
       ELSE /\ loc' = [loc EXCEPT ![t] = Raise(@)]
            /\ UNCHANGED obs
    /\ UNCHANGED <<svc, alive, hist>>
    /\ Forget

\* lines 210-221: one readiness poll of a loop of n
ProbePollWithin(t, n) ==
    /\ loc[t].pc = "probe_poll"
    /\ IF Alive(loc[t].tab)
       THEN \E is_enterprise \in BOOLEAN :
              LET ob == [obs EXCEPT ![t].sawPresent = is_enterprise]
              IN IF is_enterprise
                 THEN ProbeReturn(t, TRUE, ob)
                 ELSE IF loc[t].i + 1 < n
                 THEN /\ obs' = Seen(t, ob)
                      /\ loc' = [loc EXCEPT ![t].i = @ + 1]
                      /\ UNCHANGED <<recaptcha_ready, running>>
                 ELSE ProbeReturn(t, FALSE, ob)
       ELSE /\ loc' = [loc EXCEPT ![t] = Raise(@)]
            /\ UNCHANGED <<recaptcha_ready, running, obs>>
    /\ UNCHANGED <<browser, initialized, resident_project_id, resident_tab,
                   alive, hist>>
    /\ Forget

\* the loop of line 210 running one iteration too many
ProbePollOffByOne(t, counted) ==
    ProbePollWithin(t, Budget(ProbePolls, counted) + 1)

\* line 210: for i in range(20)
ProbePoll(t, counted) == ProbePollWithin(t, Budget(ProbePolls, counted))

(* ------------------------------------------------------------------ *)
(* _get_token_legacy(project_id), entered from get_token (line 311)   *)
(* ------------------------------------------------------------------ *)
\* lines 323-334 up to the first await: initialize() only when the session
\* is not marked initialized or there is no browser handle
LegacyFrame(l) ==
    [l EXCEPT !.ctx = "legacy", !.tab = 0, !.i = 0, !.token = None,
              !.pc = IF ~initialized \/ browser = 0 THEN "init_launch"
                                                     ELSE "legacy_get"]

(* ------------------------------------------------------------------ *)
(* _execute_recaptcha_on_tab(tab)                                     *)
(* ------------------------------------------------------------------ *)
\* line 259: the execute script is injected
ExecInject(t) ==
    /\ loc[t].pc = "exec_inject"
    /\ loc' = [loc EXCEPT ![t] =
                 IF Alive(@.tab) THEN [@ EXCEPT !.pc = "exec_token", !.i = 0]
                                 ELSE Raise(@)]
    /\ UNCHANGED <<svc, alive, obs, hist>>
    /\ Forget

\* lines 264-267: sleep(0.5), read the token global
ExecToken(t) ==
    /\ loc[t].pc = "exec_token"
    /\ IF Alive(loc[t].tab)
       THEN \E v \in TokenVals :
              /\ loc' = [loc EXCEPT ![t] =
                   IF Truthy(v) THEN [@ EXCEPT !.token = v, !.i = 0,
                                               !.pc = "exec_cleanup"]
                                ELSE [@ EXCEPT !.token = v, !.pc = "exec_error"]]
              /\ obs' = Seen(t, [obs EXCEPT ![t].execEnd =
                                   IF Truthy(v) THEN "token" ELSE @])
       ELSE /\ loc' = [loc EXCEPT ![t] = Raise(@)]
            /\ UNCHANGED obs
    /\ UNCHANGED <<svc, alive, hist>>
    /\ Forget

\* lines 268-271 in a loop of n polls: read the error global; the loop
\* ends on an error, or with the last poll
ExecErrorWithin(t, n) ==
    /\ loc[t].pc = "exec_error"
    /\ IF Alive(loc[t].tab)
       THEN \E error \in ErrorVals :
              /\ loc' = [loc EXCEPT ![t] =
                   IF Truthy(error) \/ @.i + 1 >= n
                   THEN [@ EXCEPT !.pc = "exec_cleanup", !.i = 0]
                   ELSE [@ EXCEPT !.pc = "exec_token", !.i = @ + 1]]
              /\ obs' = Seen(t, [obs EXCEPT ![t].execEnd =
                                   IF Truthy(error) THEN "error"
                                   ELSE IF loc[t].i + 1 >= n THEN "exhausted"
                                   ELSE @])
       ELSE /\ loc' = [loc EXCEPT ![t] = Raise(@)]
            /\ UNCHANGED obs
    /\ UNCHANGED <<svc, alive, hist>>
    /\ Forget

\* the loop of line 263 running one iteration too many
ExecErrorOffByOne(t, counted) ==
    ExecErrorWithin(t, Budget(ExecPolls, counted) + 1)

\* line 263: for i in range(30)
ExecError(t, counted) == ExecErrorWithin(t, Budget(ExecPolls, counted))

\* the legacy path handing on whatever the executor returned
AfterExecUnchecked(l) ==
    IF l.ctx = "resident"
    THEN IF Truthy(l.token) THEN Returned(l, l.token, "none")
                            ELSE LegacyFrame(l)
    ELSE [l EXCEPT !.pc = "legacy_close", !.ret = l.token]

\* get_token going on to the legacy path whatever the resident page gave
AfterExecAlwaysLegacy(l) ==
    IF l.ctx = "resident"
    THEN LegacyFrame(l)
    ELSE [l EXCEPT !.pc = "legacy_close",
                   !.ret = IF Truthy(l.token) THEN l.token ELSE None]

\* get_token giving up when the resident page gave nothing
AfterExecNoFallback(l) ==
    IF l.ctx = "resident"
    THEN Returned(l, IF Truthy(l.token) THEN l.token ELSE None, "none")
    ELSE [l EXCEPT !.pc = "legacy_close",
                   !.ret = IF Truthy(l.token) THEN l.token ELSE None]

\* get_token lines 302-311 and _get_token_legacy lines 360-365: what the
\* caller does with the executor's result
AfterExec(l) ==
    IF l.ctx = "resident"
    THEN IF Truthy(l.token) THEN Returned(l, l.token, "none")
                            ELSE LegacyFrame(l)
    ELSE [l EXCEPT !.pc = "legacy_close",
                   !.ret = IF Truthy(l.token) THEN l.token ELSE None]

\* lines 274-279: the globals are deleted (a failure is swallowed) and the
\* executor returns token
ExecCleanup(t) ==
    /\ loc[t].pc = "exec_cleanup"
    /\ loc' = [loc EXCEPT ![t] = AfterExec(@)]
    /\ obs' = Seen(t, [obs EXCEPT ![t] =
                 IF loc[t].ctx = "resident"
                 THEN [@ EXCEPT !.execEnd = "none",
                                !.resTok = IF Truthy(loc[t].token)
                                           THEN loc[t].token ELSE None,
                                !.legacy = IF AfterExec(loc[t]).ctx = "legacy"
                                           THEN @ + 1 ELSE @]
                 ELSE [@ EXCEPT !.execEnd = "none"]])
    /\ UNCHANGED <<svc, alive, hist>>
    /\ Forget

(* ------------------------------------------------------------------ *)
(* get_token(project_id)                                              *)
(* ------------------------------------------------------------------ *)
\* the resident branch taken whatever project the channel is bound to
UseResidentAnyProject(pid) ==
    /\ running /\ pid \in Projects
    /\ recaptcha_ready /\ resident_tab # 0

\* lines 296-297: the resident branch is taken
UseResident(pid) ==
    /\ running /\ resident_project_id = pid
    /\ recaptcha_ready /\ resident_tab # 0

\* lines 296-311 up to the first await that suspends
CallGet(t, pid) ==
    /\ loc[t].pc = "idle"
    /\ IF UseResident(pid)
       THEN /\ loc' = [loc EXCEPT ![t] = [Frame("get", pid) EXCEPT
                         !.ctx = "resident", !.tab = resident_tab,
                         !.pc = "exec_inject"]]
            /\ obs' = Seen(t, [obs EXCEPT ![t] = [@ EXCEPT !.resExec = @ + 1,
                         !.entryBound = (running /\ resident_project_id = pid)]])
       ELSE /\ loc' = [loc EXCEPT ![t] = LegacyFrame(Frame("get", pid))]
            /\ obs' = Seen(t, [obs EXCEPT ![t] = [@ EXCEPT !.legacy = @ + 1,
                         !.entryBound = (running /\ resident_project_id = pid)]])
    /\ UNCHANGED <<browser, initialized, resident_project_id, resident_tab, running,
                   recaptcha_ready, env>>

\* the pages browser.get(url) may hand back when called without
\* new_tab=True: it navigates a page the browser already has, which is a
\* page nothing else refers to (the browser's first tab) or a page of the
\* same browser that is still in use
ReusablePages ==
    {FreshPage} \cup {p \in Referenced \ {0} : tabOwner[p] = 1}

\* line 334: browser.get(url), without new_tab, completes
LegacyGet(t) ==
    /\ loc[t].pc = "legacy_get"
    /\ IF BrowserUp
       THEN \E p \in ReusablePages :
            /\ tabOwner' = [tabOwner EXCEPT ![p] = 1]
            /\ obs' = Seen(t, [obs EXCEPT ![t].opens = @ + 1])
            /\ loc' = [loc EXCEPT ![t] = [@ EXCEPT !.tab = p,
                                            !.pc = "legacy_poll", !.i = 0]]
       ELSE \* caught at line 367; tab is None, nothing to close
            /\ loc' = [loc EXCEPT ![t] = Returned(@, None, "none")]
            /\ obs' = Seen(t, [obs EXCEPT ![t].legRet = None])
            /\ UNCHANGED tabOwner
    /\ UNCHANGED <<svc, alive, hist>>

\* lines 338-348: sleep, poll document.readyState; the probe is called
\* whether or not the page ever reports "complete"
LegacyPoll(t, counted) ==
    /\ loc[t].pc = "legacy_poll"
    /\ IF Alive(loc[t].tab)
       THEN \E ready_state \in {"loading", "complete"} :
              loc' = [loc EXCEPT ![t] =
                 IF ready_state = "complete" \/ @.i + 1 >= Budget(LegacyLoadPolls, counted)
                 THEN [@ EXCEPT !.pc = "probe_check", !.i = 0]
                 ELSE [@ EXCEPT !.i = @ + 1]]
       ELSE loc' = [loc EXCEPT ![t] = Raise(@)]
    /\ UNCHANGED <<svc, env, obs, hist>>

\* lines 370-376: finally: tab.close() (its errors are swallowed), then
\* the pending result is returned
LegacyClose(t) ==
    /\ loc[t].pc = "legacy_close"
    /\ tabOwner' = [tabOwner EXCEPT ![loc[t].tab] = 0]
    /\ obs' = Seen(t, [obs EXCEPT ![t] = [@ EXCEPT !.closes = @ + 1,
                                           !.legRet = loc[t].ret]])
    /\ loc' = [loc EXCEPT ![t] = Returned(@, @.ret, "none")]
    /\ UNCHANGED <<svc, alive, hist>>

(* ------------------------------------------------------------------ *)
(* The caller takes the result; the coroutine is free again           *)
(* ------------------------------------------------------------------ *)
Return(t) ==
    /\ loc[t].pc = "done"
    /\ loc' = [loc EXCEPT ![t] = IdleLoc]
    /\ obs' = Seen(t, [obs EXCEPT ![t] = ZeroObs])
    /\ UNCHANGED <<svc, env, hist>>

\* the same, and the instrumentation notes what the call was and did
ReturnNoted(t) ==
    /\ loc[t].pc = "done"
    /\ loc' = [loc EXCEPT ![t] = IdleLoc]
    /\ obs' = Seen(t, [obs EXCEPT ![t] = ZeroObs])
    /\ prev' = [op |-> loc[t].op, opens |-> obs[t].opens,
                entryRunning |-> obs[t].entryRunning,
                raised |-> loc[t].exc # "none",
                rid |-> resident_project_id]
    /\ UNCHANGED <<svc, env, raced>>

(* ------------------------------------------------------------------ *)
(* open_login_window()                                                *)
(* ------------------------------------------------------------------ *)
\* lines 397-399 up to the first await that suspends
CallLogin(t) ==
    /\ loc[t].pc = "idle"
    /\ IF SessionAlive
       THEN /\ loc' = [loc EXCEPT ![t] = [Frame("login", None) EXCEPT
                         !.ctx = "login", !.pc = "login_get"]]
            /\ UNCHANGED initialized
       ELSE /\ initialized' = AfterHealthCheck
            /\ loc' = [loc EXCEPT ![t] = [Frame("login", None) EXCEPT
                         !.ctx = "login", !.pc = "init_launch"]]
    /\ UNCHANGED <<browser, resident_project_id, resident_tab, running,
                   recaptcha_ready, env, obs, hist>>

\* lines 400-402: browser.get completes (not inside any try); the page is
\* left open and its handle dropped
LoginGet(t) ==
    /\ loc[t].pc = "login_get"
    /\ IF BrowserUp
       THEN /\ loc' = [loc EXCEPT ![t] = Returned(@, None, "none")]
            /\ obs' = Seen(t, [obs EXCEPT ![t].opens = @ + 1])
       ELSE /\ loc' = [loc EXCEPT ![t] = Returned(@, None, "page")]
            /\ UNCHANGED obs
    /\ UNCHANGED <<svc, env, hist>>

Login(t) == CallLogin(t) \/ LoginGet(t)

(* ------------------------------------------------------------------ *)
(* Status queries (synchronous)                                       *)
(* ------------------------------------------------------------------ *)
\* the attributes __init__ gives the instance (lines 29-41); no other
\* method adds one
Attributes == {"headless", "browser", "_initialized", "website_key", "db",
               "user_data_dir", "resident_project_id", "resident_tab",
               "_running", "_recaptcha_ready"}

\* lines 406-408
is_resident_mode_active == IF running THEN "True" ELSE "False"
\* lines 414-416
get_resident_project_id == resident_project_id
\* lines 410-412: self.token_queue.qsize(); reading an attribute the
\* instance does not have raises AttributeError
get_queue_size ==
    IF "token_queue" \in Attributes THEN "qsize" ELSE "AttributeError"

Queries == {"is_resident_mode_active", "get_queue_size",
            "get_resident_project_id"}

\* a status query is called and returns or raises at once
CallQuery(t, q) ==
    /\ loc[t].pc = "idle"
    /\ loc' = [loc EXCEPT ![t] =
         IF q = "is_resident_mode_active"
         THEN Returned(Frame(q, None), is_resident_mode_active, "none")
         ELSE IF q = "get_resident_project_id"
         THEN Returned(Frame(q, None), get_resident_project_id, "none")
         ELSE IF get_queue_size = "AttributeError"
         THEN Returned(Frame(q, None), None, "attribute")
         ELSE Returned(Frame(q, None), get_queue_size, "none")]
    /\ UNCHANGED <<svc, env, obs, hist>>

Query(t) == \E q \in Queries : CallQuery(t, q)

Step(t, counted) ==
    \/ InitLaunch(t)
    \/ StartGet(t)
    \/ StartPoll(t, counted)
    \/ StartReget(t)
    \/ StartSleep(t, counted)
    \/ StopClose(t)
    \/ ProbeCheck(t)
    \/ ProbeInject(t)
    \/ ProbePoll(t, counted)
    \/ ExecInject(t)
    \/ ExecToken(t)
    \/ ExecError(t, counted)
    \/ ExecCleanup(t)
    \/ LegacyGet(t)
    \/ LegacyPoll(t, counted)
    \/ LegacyClose(t)

Environment ==
    \/ \E p \in PageIds : TabDies(p)
    \/ BrowserDies

\* a start_resident_mode, stop_resident_mode or close call is in flight
InTransition(l) == l.op \in {"start", "stop", "close"} /\ l.pc # "done"

\* a channel transition begins: note whether another one is in flight
Transition(t) ==
    /\ \/ \E pid \in Projects : CallStart(t, pid)
       \/ CallStop(t, "stop")
       \/ CallStop(t, "close")
    /\ raced' = (raced \/ \E u \in Tasks \ {t} : InTransition(loc[u]))
    /\ UNCHANGED prev

Request(t) ==
    /\ \E pid \in Projects : CallGet(t, pid)
    /\ UNCHANGED hist

(* ------------------------------------------------------------------ *)
(* Concurrent calls.  Most steps of a call are private to it: an      *)
(* evaluation on the page the coroutine holds reads that page and     *)
(* writes the coroutine's own locals, and a "not yet" answer changes  *)
(* nothing but a loop counter.  Such a step commutes with every step  *)
(* of another coroutine, so an interleaving that lets another         *)
(* coroutine in between two private steps reaches no state of the     *)
(* service that the interleaving with that coroutine moved to the     *)
(* nearest yield point does not reach.  A coroutine therefore yields  *)
(* to the other coroutines only at the yield points below, one        *)
(* between any two of its steps that read or write the service's      *)
(* fields, and counts the iterations of a loop up to LoopCut.  A       *)
(* result is taken by the caller before anything else moves.  The     *)
(* environment moves at any other time.                               *)
(* ------------------------------------------------------------------ *)
YieldPoint(l) ==
    \/ l.pc \in {"idle", "init_launch", "start_get", "start_reget",
                 "start_sleep", "stop_close", "legacy_get"}
    \/ l.pc = "start_poll" /\ l.i = 0
    \/ l.pc = "probe_check" /\ l.ctx = "start"
    \/ l.pc = "exec_inject" /\ l.ctx = "resident"

Turn(t) == \A u \in Tasks \ {t} : YieldPoint(loc[u])

NoResultPending == \A u \in Tasks : loc[u].pc # "done"

Next ==
    \/ \E t \in Tasks : Turn(t) /\ Transition(t) /\ UNCHANGED <<inst, page>>
    \/ \E t \in Tasks : Turn(t) /\ Request(t) /\ UNCHANGED <<inst, page>>
    \/ \E t \in Tasks : Turn(t) /\ Step(t, FALSE) /\ UNCHANGED <<inst, page>>
    \/ \E t \in Tasks : Turn(t) /\ Return(t) /\ UNCHANGED <<inst, page>>
    \/ NoResultPending /\ Environment /\ UNCHANGED <<inst, page>>

Spec == Init /\ [][Next]_vars

(* ------------------------------------------------------------------ *)
(* One caller making one call after another, every loop iteration a   *)
(* step of its own, the environment free to move between any two.     *)
(* ------------------------------------------------------------------ *)
NextSeq ==
    \/ Transition(Caller) /\ UNCHANGED <<inst, page>>
    \/ Request(Caller) /\ UNCHANGED <<inst, page>>
    \/ Query(Caller) /\ UNCHANGED <<inst, page>>
    \/ Login(Caller) /\ UNCHANGED <<inst, page>>
    \/ Step(Caller, TRUE) /\ UNCHANGED <<inst, page>>
    \/ ReturnNoted(Caller) /\ UNCHANGED <<inst, page>>
    \/ Environment /\ UNCHANGED <<inst, page>>

SpecSeq == Init /\ [][NextSeq]_vars

\* every browser primitive a call awaits returns or raises: the call is
\* resumed after each await
NextLive ==
    \/ Transition(Caller) /\ UNCHANGED <<inst, page>>
    \/ Request(Caller) /\ UNCHANGED <<inst, page>>
    \/ Step(Caller, TRUE) /\ UNCHANGED <<inst, page>>
    \/ Return(Caller) /\ UNCHANGED <<inst, page>>
    \/ Environment /\ UNCHANGED <<inst, page>>

LiveSeq ==
    /\ Init
    /\ [][NextLive]_vars
    /\ WF_vars(Step(Caller, TRUE) /\ UNCHANGED <<inst, page>>)

(* ------------------------------------------------------------------ *)
(* get_instance(db): the class-level singleton accessor.  Entering    *)
(* `async with cls._lock` is an await, taken here as a point where    *)
(* other callers may run; the block under the lock has no await.      *)
(* ------------------------------------------------------------------ *)
\* line 46: the first check; an instance exists -> line 50 returns it
GetInstance(c, db) ==
    /\ gi[c].pc = "idle"
    /\ IF instance # NoInstance
       THEN /\ gi' = [gi EXCEPT ![c] = [pc |-> "done", db |-> db,
                                        ret |-> instance]]
            /\ given' = given \cup {instance}
       ELSE /\ gi' = [gi EXCEPT ![c] = [pc |-> "acquire", db |-> db,
                                        ret |-> NoInstance]]
            /\ UNCHANGED given
    /\ UNCHANGED <<instance, constructed, lock>>

\* line 47: the lock is free and the caller gets it
Acquire(c) ==
    /\ gi[c].pc = "acquire"
    /\ lock = None
    /\ lock' = c
    /\ gi' = [gi EXCEPT ![c].pc = "locked"]
    /\ UNCHANGED <<instance, constructed, given>>

\* lines 48-50 without the second check of line 48
CriticalNoRecheck(c) ==
    /\ gi[c].pc = "locked"
    /\ instance' = [id |-> constructed + 1, db |-> gi[c].db]
    /\ constructed' = constructed + 1
    /\ lock' = None
    /\ gi' = [gi EXCEPT ![c] = [@ EXCEPT !.pc = "done", !.ret = instance']]
    /\ given' = given \cup {instance'}

\* lines 48-50: the second check, the construction, the release of the
\* lock and the return
Critical(c) ==
    /\ gi[c].pc = "locked"
    /\ IF instance = NoInstance
       THEN /\ instance' = [id |-> constructed + 1, db |-> gi[c].db]
            /\ constructed' = constructed + 1
       ELSE UNCHANGED <<instance, constructed>>
    /\ lock' = None
    /\ gi' = [gi EXCEPT ![c] = [@ EXCEPT !.pc = "done", !.ret = instance']]
    /\ given' = given \cup {instance'}

\* the caller has its instance and may call again
InstanceTaken(c) ==
    /\ gi[c].pc = "done"
    /\ gi' = [gi EXCEPT ![c] = IdleGi]
    /\ UNCHANGED <<instance, constructed, lock, given>>

NextInst ==
    \/ \E c \in Callers, db \in Dbs :
          GetInstance(c, db) /\ UNCHANGED <<svc, env, loc, obs, hist, page>>
    \/ \E c \in Callers : Acquire(c) /\ UNCHANGED <<svc, env, loc, obs, hist, page>>
    \/ \E c \in Callers : Critical(c) /\ UNCHANGED <<svc, env, loc, obs, hist, page>>
    \/ \E c \in Callers :
          InstanceTaken(c) /\ UNCHANGED <<svc, env, loc, obs, hist, page>>

SpecInst == Init /\ [][NextInst]_vars

(* ------------------------------------------------------------------ *)
(* _execute_recaptcha_on_tab(tab) seen from the page: the globals the  *)
(* script creates, the promise that fills them, and two coroutines     *)
(* running the executor on the same page.  Every tab.evaluate is one   *)
(* step of the page; time passes between the steps.                    *)
(* ------------------------------------------------------------------ *)
\* what tab.evaluate("window.x") hands to python
FromJs(v) == IF v = Undefined THEN None ELSE v

\* time passes; the model stops counting after MaxClock
Later(c) == Min({c + 1, MaxClock + 1})

\* an exception leaves the executor; there is no finally around the loop
ExecRaise(e) ==
    /\ ex' = [ex EXCEPT ![e] = IdleExec]
    /\ fault' = TRUE
    /\ UNCHANGED <<window, promises>>

\* lines 233-259: ts from the clock, then the script runs in the page:
\* both globals are set to null and execute() is called, or the try
\* block throws and the error global is set at once
ExecStart(e) ==
    /\ ex[e].pc = "idle"
    /\ clock <= MaxClock
    /\ LET ts == clock IN
         \/ /\ window' = [window EXCEPT ![ts] = [token |-> None, error |-> None]]
            /\ promises' = promises \cup {<<ts, e>>}
            /\ ex' = [ex EXCEPT ![e] = [IdleExec EXCEPT !.pc = "poll_token",
                                                        !.ts = ts]]
            /\ UNCHANGED fault
         \/ /\ window' = [window EXCEPT ![ts] = [token |-> None, error |-> "err"]]
            /\ ex' = [ex EXCEPT ![e] = [IdleExec EXCEPT !.pc = "poll_token",
                                                        !.ts = ts]]
            /\ UNCHANGED <<promises, fault>>
         \/ ExecRaise(e)
    /\ UNCHANGED clock

\* lines 264-267: sleep half a second, read the token global
PollToken(e) ==
    /\ ex[e].pc = "poll_token"
    /\ clock' = Later(clock)
    /\ \/ LET v == FromJs(window[ex[e].ts].token) IN
            /\ ex' = [ex EXCEPT ![e] =
                        [@ EXCEPT !.token = v,
                                  !.pc = IF Truthy(v) THEN "cleanup"
                                         ELSE "poll_error"]]
            /\ UNCHANGED <<window, promises, fault>>
       \/ ExecRaise(e)

\* lines 268-271 and the loop of line 263: read the error global
PollError(e) ==
    /\ ex[e].pc = "poll_error"
    /\ \/ LET error == FromJs(window[ex[e].ts].error) IN
            /\ ex' = [ex EXCEPT ![e] =
                        IF Truthy(error) \/ @.i + 1 >= Budget(ExecPolls, FALSE)
                        THEN [@ EXCEPT !.pc = "cleanup"]
                        ELSE [@ EXCEPT !.pc = "poll_token", !.i = @ + 1]]
            /\ UNCHANGED <<window, promises, fault>>
       \/ ExecRaise(e)
    /\ UNCHANGED clock

\* lines 274-279: delete both globals, a failure is swallowed; return token
ExecDelete(e) ==
    /\ ex[e].pc = "cleanup"
    /\ \/ /\ window' = [window EXCEPT ![ex[e].ts] = NoGlobals]
          /\ UNCHANGED fault
       \/ /\ fault' = TRUE
          /\ UNCHANGED window
    /\ ex' = [ex EXCEPT ![e].pc = "returned"]
    /\ UNCHANGED <<clock, promises>>

\* the caller takes the result
ExecReturn(e) ==
    /\ ex[e].pc = "returned"
    /\ ex' = [ex EXCEPT ![e] = IdleExec]
    /\ UNCHANGED <<clock, window, promises, fault>>

\* line 246: the promise of execute() is fulfilled
Resolve(n, e) ==
    /\ <<n, e>> \in promises
    /\ \E token \in Tokens :
          window' = [window EXCEPT ![n].token = token]
    /\ promises' = promises \ {<<n, e>>}
    /\ UNCHANGED <<clock, ex, fault>>

\* line 249: the promise of execute() is rejected
Reject(n, e) ==
    /\ <<n, e>> \in promises
    /\ window' = [window EXCEPT ![n].error = "err"]
    /\ promises' = promises \ {<<n, e>>}
    /\ UNCHANGED <<clock, ex, fault>>

\* a millisecond passes
Tick ==
    /\ clock <= MaxClock
    /\ clock' = clock + 1
    /\ UNCHANGED <<window, promises, ex, fault>>

NextExec ==
    \/ \E e \in Execs : ExecStart(e) /\ UNCHANGED <<svc, env, loc, obs, hist, inst>>
    \/ \E e \in Execs : PollToken(e) /\ UNCHANGED <<svc, env, loc, obs, hist, inst>>
    \/ \E e \in Execs : PollError(e) /\ UNCHANGED <<svc, env, loc, obs, hist, inst>>
    \/ \E e \in Execs : ExecDelete(e) /\ UNCHANGED <<svc, env, loc, obs, hist, inst>>
    \/ \E e \in Execs : ExecReturn(e) /\ UNCHANGED <<svc, env, loc, obs, hist, inst>>
    \/ \E n \in Names, e \in Execs :
          Resolve(n, e) /\ UNCHANGED <<svc, env, loc, obs, hist, inst>>
    \/ \E n \in Names, e \in Execs :
          Reject(n, e) /\ UNCHANGED <<svc, env, loc, obs, hist, inst>>
    \/ Tick /\ UNCHANGED <<svc, env, loc, obs, hist, inst>>

SpecExec == Init /\ [][NextExec]_vars

(* ------------------------------------------------------------------ *)
(* Properties                                                         *)
(* ------------------------------------------------------------------ *)
\* a call of operation o by coroutine t has returned or raised
Done(t, o) == loc[t].pc = "done" /\ loc[t].op = o

\* C1: get_token returns a non-empty token string or None, never an empty
\* string: an empty or null executor result counts as a failure on the
\* resident path and on the legacy path alike
TokenOrNone ==
    \A t \in Tasks :
        Done(t, "get") /\ loc[t].exc = "none"
            => loc[t].ret \in Tokens \cup {None}

\* the executor of a legacy acquire read an empty string, and the acquire
\* is about to return None
EmptyTokenDropped ==
    /\ loc[Caller].pc = "legacy_close"
    /\ loc[Caller].token = ""
    /\ loc[Caller].ret = None
    /\ obs[Caller].probeRet = "true"

\* C2: when the channel is running and bound to T and the executor on the
\* resident page returns a token, get_token(T) returns exactly that token
\* and the legacy path is not invoked during the call
ResidentTokenReturned ==
    Done(Caller, "get") /\ obs[Caller].resTok \in Tokens
        => /\ obs[Caller].entryBound
           /\ loc[Caller].exc = "none"
           /\ loc[Caller].ret = obs[Caller].resTok
           /\ obs[Caller].resExec = 1
           /\ obs[Caller].legacy = 0
           /\ obs[Caller].opens = 0

ResidentTokenServed ==
    /\ Done(Caller, "get")
    /\ obs[Caller].resTok = "tokB"
    /\ loc[Caller].ret = "tokB"
    /\ obs[Caller].legacy = 0

\* C3: when the channel is running and bound to T and the executor on the
\* resident page returns nothing, get_token(T) invokes the legacy path
\* exactly once, runs the executor on the resident page only once, and
\* hands on what the legacy path returned (or the launch failure it raised)
ResidentNullFallsBack ==
    Done(Caller, "get") /\ obs[Caller].resTok = None
        => /\ obs[Caller].entryBound
           /\ obs[Caller].legacy = 1
           /\ obs[Caller].resExec = 1
           /\ \/ loc[Caller].exc = "none" /\ loc[Caller].ret = obs[Caller].legRet
              \/ loc[Caller].exc = "launch" /\ obs[Caller].legRet = "unset"

\* the resident page gave nothing and the legacy page gave a token
FallbackServed ==
    /\ Done(Caller, "get")
    /\ obs[Caller].resTok = None
    /\ obs[Caller].legacy = 1
    /\ loc[Caller].ret = "tokA"
    /\ obs[Caller].legRet = "tokA"

GetRaisesOnlyOnLaunch ==
    \A t \in Tasks :
        Done(t, "get") /\ loc[t].exc # "none" => loc[t].exc = "launch"

\* C6 as stated: over two successive start_resident_mode calls with no
\* stop in between (the first finding the channel stopped, neither of
\* them raising), the number of page-open calls is 1
StartTwiceOpensOnePage ==
    Done(Caller, "start") /\ prev.op = "start" /\ ~prev.entryRunning
                          /\ ~prev.raised /\ loc[Caller].exc = "none"
        => prev.opens + obs[Caller].opens = 1

\* C6: when the first of two successive start_resident_mode calls found
\* the channel stopped and left it running, the second call is a no-op
\* that opens no page, so the page-open calls over both calls are those of
\* the first: one, and one more for each re-creation of the page
StartWhileRunningOpensNothing ==
    Done(Caller, "start") /\ prev.op = "start" /\ ~prev.entryRunning
                          /\ obs[Caller].entryRunning
        => /\ obs[Caller].opens = 0
           /\ prev.opens >= 1
           /\ loc[Caller].exc = "none"
           /\ running

StartedTwice ==
    /\ Done(Caller, "start") /\ prev.op = "start" /\ ~prev.entryRunning
    /\ obs[Caller].entryRunning
    /\ prev.opens = 1

\* C7: stop_resident_mode called when the channel is not running returns
\* at once without raising, closes no page and changes no field of the
\* service; and a stop_resident_mode that no other transition overlapped
\* leaves the channel not running, so that a second one changes nothing
StopWhenStoppedIsNoop ==
    [][\A t \in Tasks :
         /\ (loc[t].pc = "idle" /\ loc'[t].op = "stop" /\ ~running)
                => /\ loc'[t].pc = "done"
                   /\ loc'[t].exc = "none"
                   /\ obs'[t].closes = 0
                   /\ UNCHANGED <<svc, env>>
         /\ (loc[t].pc # "done" /\ loc'[t].pc = "done" /\ loc'[t].op = "stop"
                /\ ~raced')
                => ~running']_vars

\* a stop_resident_mode that found the channel not running has returned,
\* and the page a failed start left behind is still stored
StoppedAgain ==
    /\ Done(Caller, "stop")
    /\ ~obs[Caller].entryRunning
    /\ resident_tab # 0
    /\ resident_project_id # None

\* C8: the page a legacy acquire opened has been closed exactly once when
\* the acquire returns, on every way out, and the acquire never stops the
\* browser process
LegacyClosesItsPage ==
    /\ loc[Caller].op = "get"
          => /\ obs[Caller].closes <= obs[Caller].opens
             /\ obs[Caller].opens <= 1
             /\ obs[Caller].stops = 0
    /\ Done(Caller, "get") => obs[Caller].closes = obs[Caller].opens

\* a legacy acquire whose page died before the probe's first check
\* answered has returned None, its page closed once
LegacyClosedAfterException ==
    /\ Done(Caller, "get")
    /\ obs[Caller].opens = 1 /\ obs[Caller].closes = 1
    /\ obs[Caller].first = "none"
    /\ loc[Caller].ret = None /\ loc[Caller].exc = "none"

\* C9: _wait_for_recaptcha returns true without any injection when the
\* first check reports the library present; otherwise it injects once and
\* polls at most 20 times, returns true at the first poll that reports
\* the library present, and returns false only after the 20th poll
ProbeBudget ==
    [][/\ loc'[Caller].pc = "probe_poll"
            => /\ loc'[Caller].i < ProbePolls
               /\ obs'[Caller].injects = 1
               /\ obs'[Caller].first = "absent"
               /\ ~obs'[Caller].sawPresent
       /\ (obs[Caller].probeRet = "unset" /\ obs'[Caller].probeRet # "unset")
            => /\ obs'[Caller].first = "present"
                    => /\ obs'[Caller].probeRet = "true"
                       /\ obs'[Caller].injects = 0
                       /\ loc[Caller].pc = "probe_check"
               /\ obs'[Caller].first # "present"
                    => /\ obs'[Caller].first = "absent"
                       /\ obs'[Caller].injects = 1
                       /\ loc[Caller].pc = "probe_poll"
                       /\ obs'[Caller].probeRet = "true"
                              <=> obs'[Caller].sawPresent
                       /\ obs'[Caller].probeRet = "false"
                              => loc[Caller].i = ProbePolls - 1]_vars

\* the probe has given up on a page that never reported the library
ProbeGaveUp ==
    /\ obs[Caller].probeRet = "false"
    /\ obs[Caller].first = "absent"
    /\ obs[Caller].injects = 1

\* C10 as stated: in every reachable state, under every interleaving of
\* concurrent calls, running implies that the resident page and the
\* project id are stored
RunningHasPage ==
    running => resident_tab # 0 /\ resident_project_id # None

\* C10: as long as no two start_resident_mode, stop_resident_mode or
\* close calls have overlapped, running implies that the resident page
\* and the project id are stored, whatever get_token calls are in flight
RunningHasPageUnlessRaced ==
    ~raced => (running => resident_tab # 0 /\ resident_project_id # None)

\* the channel runs while the other coroutine's get_token is on the
\* resident page and this coroutine's own call is in flight
RunningUnderLoad ==
    /\ running /\ ~raced
    /\ loc["t2"].op = "get" /\ loc["t2"].ctx = "resident"
    /\ loc[Caller].op = "get" /\ loc[Caller].pc = "legacy_get"

\* C11: a start_resident_mode that fails (the page never reports
\* "complete", or the probe reports the library absent) leaves running
\* false and the stored target id as it was before the call
StartFailureKeepsId ==
    Done(Caller, "start") /\ loc[Caller].exc = "none" /\ ~running
        => get_resident_project_id = prev.rid

\* C12: close() stops the resident channel first (running is false and
\* the browser untouched while the resident page is being closed), then
\* stops the browser process and resets initialized; it never raises;
\* when it returns the browser handle is absent, initialized is false,
\* and, unless another start/stop/close overlapped, running is false
CloseShutsDown ==
    [][\A t \in Tasks :
         /\ (loc[t].pc = "idle" /\ loc'[t].op = "close"
                /\ loc'[t].pc = "stop_close")
                => /\ ~running'
                   /\ obs'[t].stops = 0
                   /\ UNCHANGED <<browser, initialized, env>>
         /\ (loc[t].pc # "done" /\ loc'[t].pc = "done" /\ loc'[t].op = "close")
                => /\ loc'[t].exc = "none"
                   /\ browser' = 0
                   /\ ~initialized'
                   /\ ~alive'
                   /\ obs'[t].stops <= 1
                   /\ obs'[t].closes <= 1
                   /\ ~raced' => ~running']_vars

\* close() has returned after closing the resident page of a running
\* channel and stopping the browser, a get_token call being in flight
ClosedWhileServing ==
    /\ Done(Caller, "close")
    /\ obs[Caller].entryRunning
    /\ obs[Caller].closes = 1 /\ obs[Caller].stops = 1
    /\ ~raced
    /\ loc["t2"].op = "get" /\ loc["t2"].pc # "done"

\* C13: initialize() launches a browser process only when no process
\* launched earlier is still alive, under every interleaving of the
\* operations that call it
LaunchOnlyWhenNoneAlive ==
    [][\A t \in Tasks :
         loc[t].pc = "init_launch" /\ loc'[t].pc \notin {"init_launch", "done"}
             => ~alive]_vars

\* C14: under every interleaving of concurrent get_instance calls the
\* constructor runs at most once and every call, whatever db it passes,
\* returns the same instance
SingleInstance ==
    /\ constructed <= 1
    /\ Cardinality(given) <= 1
    /\ \A c \in Callers : gi[c].pc = "done" => gi[c].ret = instance
    /\ instance # NoInstance <=> constructed = 1

\* a caller that found no instance at the first check holds the lock
\* after another caller, passing another db, has constructed the instance
LateCallerUnderLock ==
    \E c \in Callers :
        /\ gi[c].pc = "locked"
        /\ instance # NoInstance
        /\ instance.db # gi[c].db
        /\ given # {}

NoGlobalRemains ==
    (\A e \in Execs : ex[e].pc = "idle") /\ ~fault
        => \A n \in Names : window[n] = NoGlobals

\* C17: two executions that are polling the same page at the same time
\* use distinct global names.
DistinctGlobalNames ==
    \A e, f \in Execs :
        /\ e # f
        /\ ex[e].pc \in {"poll_token", "poll_error", "cleanup"}
        /\ ex[f].pc \in {"poll_token", "poll_error", "cleanup"}
        => ex[e].ts # ex[f].ts

\* C18: every get_token and start_resident_mode call in flight eventually
\* returns or raises, given that each browser primitive it awaits returns;
\* all loops are counted in full (15, 10, 20 and 30 rounds).
CallsReturn ==
    (loc[Caller].op \in {"get", "start"} /\ loc[Caller].pc \notin {"idle", "done"})
        ~> loc[Caller].pc = "done"

\* a start call has re-created its page and is about to sleep before the
\* next attempt
StartRecreatingPage ==
    loc[Caller].op = "start" /\ loc[Caller].pc = "start_sleep" /\ loc[Caller].i > 0

\* C19: the page a legacy acquire navigates and closes is its own: it is
\* neither the resident channel's page nor the page of another legacy
\* acquire in flight.
LegacyOwnsItsPage ==
    \A t \in Tasks :
        loc[t].ctx = "legacy" /\ loc[t].tab # 0
            => /\ running => loc[t].tab # resident_tab
               /\ \A u \in Tasks \ {t} :
                     loc[u].ctx = "legacy" => loc[u].tab # loc[t].tab

\* C20: get_queue_size returns without raising, like the other two status
\* queries.
QueueSizeNeverRaises ==
    \A q \in Queries : Done(Caller, q) => loc[Caller].exc = "none"

====
